---- MODULE Spec2Model ----
(***************************************************************************)
(* Model of web_classification/pf-in-aml-pipeline:                         *)
(*   run_pipeline.py     - builds the three-stage pipeline, submits it to  *)
(*                         the job service and streams the job             *)
(*   src/postprocess.py  - the postprocess stage's script                  *)
(***************************************************************************)
EXTENDS Integers, Sequences, FiniteSets, TLC

VARIABLES
    pipeline_components, \* run_pipeline.py: the module-level registry (a list)
    calls,               \* history: one record per build_pipeline call of this process
    pipeline_job,        \* the object returned by the last pipeline_definition(name=...)
    pc,                  \* position of run_pipeline.py's __main__ block
    compute_target,      \* os.getenv("AML_COMPUTE_TARGET")
    failed_step,         \* the step of __main__ whose exception ended the run ("" if none)
    trail,               \* history: the steps of __main__ that were executed, in order
    submitted,           \* job service: the pipeline jobs received by jobs.create_or_update
    job,                 \* the job handle create_or_update returned (its name; 0 = unset)
    stream_target,       \* the job name passed to jobs.stream (0 = not streaming yet)
    stage,               \* job service: status of the three stages of the submitted job
    fs,                  \* files: path -> [exists, lines]
    argv,                \* postprocess.py: the command line
    ppc,                 \* postprocess.py: position of the script
    input_data_path,     \* postprocess.py: args.input_data_path
    input_data_df,       \* postprocess.py: the loaded table (a sequence of rows)
    stdout,              \* postprocess.py: what was printed
    fs0                  \* history: the files as they were when the script started

vars == <<pipeline_components, calls, pipeline_job, pc, compute_target, failed_step,
          trail, submitted, job, stream_target, stage, fs, argv, ppc, input_data_path,
          input_data_df, stdout, fs0>>

libVars == <<pipeline_components, calls, pipeline_job>>
mainVars == <<pc, compute_target, failed_step, trail, submitted, job, stream_target>>
scriptVars == <<argv, ppc, input_data_path, input_data_df, stdout, fs0>>

-----------------------------------------------------------------------------
(* Bounds of the model *)

MaxCalls == 2       \* build_pipeline calls in one process
MaxVersion == 2     \* distinct contents a component file can have when it is loaded
MaxLines == 3       \* lines of an input file of the postprocess script

-----------------------------------------------------------------------------
(* run_pipeline.py, lines 12-17 *)

AML_EXPERIMENT_NAME == "pf_in_pipeline_experiment"
AML_PIPELINE_NAME == "my_pipeline"
AML_DATASTORE_PATH_PREFIX == "azureml://datastores/workspaceblobstore/paths/"
AML_DATASTORE_PREPROCESS_FILE_NAME == "data.jsonl"
AML_DATASTORE_PROMPTFLOW_FILE_NAME == "pf_output.jsonl"
AML_DATASTORE_POSTPROCESS_FILE_NAME == "postprocess.jsonl"

\* Python's None and a present value
PyNone == [none |-> TRUE, val |-> ""]
Some(v) == [none |-> FALSE, val |-> v]

-----------------------------------------------------------------------------
(* Components and the pipeline graph *)

PREPROCESS_YAML == "components/preprocess.yaml"
FLOW_DAG_YAML == "../flows/experiment/flow.dag.yaml"
POSTPROCESS_YAML == "components/postprocess.yaml"

\* What load_component can find: 0 = it raises (file missing or invalid),
\* v > 0 = the file's content at the time of the load.
LoadResults == 0..MaxVersion

\* load_component(path): a new component object. `call` is the build_pipeline call
\* that made the object, `ver` the file content it was made from.
load_component(path, ver, call) == [path |-> path, ver |-> ver, call |-> call]

\* A binding of a node's input
InputPath(name, path) ==
    [name |-> name, kind |-> "uri_file", node |-> 0, output |-> "", path |-> path, value |-> ""]
InputLiteral(name, value) ==
    [name |-> name, kind |-> "literal", node |-> 0, output |-> "", path |-> "", value |-> value]
InputFrom(name, node, output) ==
    [name |-> name, kind |-> "output", node |-> node, output |-> output, path |-> "", value |-> ""]

\* Output(path=..., type=uri_file, mode="direct") assigned to a node's output
OutputAt(name, path) == [name |-> name, path |-> path, mode |-> "direct"]

NoGraph == [ok |-> FALSE, name |-> "", nodes |-> <<>>]

\* evaluation_pipeline with postprocess fed from preprocess instead of the evaluation
evaluation_pipeline_miswired(registry, pipeline_name) ==
    IF Len(registry) < 3 THEN NoGraph
    ELSE
      [ok |-> TRUE,
       name |-> pipeline_name,
       nodes |-> <<
         [component |-> registry[1],
          inputs |-> {InputPath("input_data_path",
                                AML_DATASTORE_PATH_PREFIX \o AML_DATASTORE_PREPROCESS_FILE_NAME),
                      InputLiteral("max_records", "2")},
          outputs |-> {OutputAt("output_data_path",
                                AML_DATASTORE_PATH_PREFIX \o "preprocess_output.jsonl")}],
         [component |-> registry[2],
          inputs |-> {InputFrom("data", 1, "output_data_path"),
                      InputLiteral("url", "${data.url}")},
          outputs |-> {OutputAt("flow_outputs",
                                AML_DATASTORE_PATH_PREFIX \o AML_DATASTORE_PROMPTFLOW_FILE_NAME)}],
         [component |-> registry[3],
          inputs |-> {InputFrom("input_data_path", 1, "output_data_path")},
          outputs |-> {}]
       >>]

\* evaluation_pipeline(name), the body decorated with @pipeline(name=pipeline_name):
\* Python's pipeline_components[0], [1], [2] are registry[1], [2], [3] here.
\* With fewer than three entries the indexing raises IndexError (NoGraph).
evaluation_pipeline(registry, pipeline_name) ==
    IF Len(registry) < 3 THEN NoGraph
    ELSE
      [ok |-> TRUE,
       name |-> pipeline_name,
       nodes |-> <<
         \* preprocess = pipeline_components[0](input_data_path=pf_input_path, max_records=2)
         [component |-> registry[1],
          inputs |-> {InputPath("input_data_path",
                                AML_DATASTORE_PATH_PREFIX \o AML_DATASTORE_PREPROCESS_FILE_NAME),
                      InputLiteral("max_records", "2")},
          outputs |-> {OutputAt("output_data_path",
                                AML_DATASTORE_PATH_PREFIX \o "preprocess_output.jsonl")}],
         \* experiment = pipeline_components[1](data=preprocess.outputs.output_data_path, url=...)
         [component |-> registry[2],
          inputs |-> {InputFrom("data", 1, "output_data_path"),
                      InputLiteral("url", "${data.url}")},
          outputs |-> {OutputAt("flow_outputs",
                                AML_DATASTORE_PATH_PREFIX \o AML_DATASTORE_PROMPTFLOW_FILE_NAME)}],
         \* postprocess = pipeline_components[2](input_data_path=experiment.outputs.flow_outputs)
         [component |-> registry[3],
          inputs |-> {InputFrom("input_data_path", 2, "flow_outputs")},
          outputs |-> {}]
       >>]

\* build_pipeline, lines 83-92: the three loads, then the three appends.
\* r1, r2, r3 are what the three load_component calls find.
build_ok(r1, r2, r3) == r1 # 0 /\ r2 # 0 /\ r3 # 0

\* build_pipeline with each append made right after its load
build_registry_interleaved(registry, call, r1, r2, r3) ==
    IF r1 = 0 THEN registry
    ELSE IF r2 = 0 THEN registry \o << load_component(PREPROCESS_YAML, r1, call) >>
    ELSE IF r3 = 0 THEN registry \o << load_component(PREPROCESS_YAML, r1, call),
                                       load_component(FLOW_DAG_YAML, r2, call) >>
    ELSE registry \o << load_component(PREPROCESS_YAML, r1, call),
                        load_component(FLOW_DAG_YAML, r2, call),
                        load_component(POSTPROCESS_YAML, r3, call) >>

build_registry(registry, call, r1, r2, r3) ==
    IF build_ok(r1, r2, r3)
    THEN registry \o << load_component(PREPROCESS_YAML, r1, call),
                        load_component(FLOW_DAG_YAML, r2, call),
                        load_component(POSTPROCESS_YAML, r3, call) >>
    ELSE registry

\* The record kept of one build_pipeline call
CallRecord(call, pipeline_name, r1, r2, r3) ==
    [ok |-> build_ok(r1, r2, r3),
     name |-> pipeline_name,
     found |-> <<r1, r2, r3>>,
     loaded |-> IF build_ok(r1, r2, r3)
                THEN << load_component(PREPROCESS_YAML, r1, call),
                        load_component(FLOW_DAG_YAML, r2, call),
                        load_component(POSTPROCESS_YAML, r3, call) >>
                ELSE <<>>]

\* pipeline_definition(name=...): runs evaluation_pipeline now, against the registry
\* as it is now. `def` is the build_pipeline call that returned the definition.
InvokeResult(def) ==
    LET g == evaluation_pipeline(pipeline_components, calls[def].name)
    IN  [ok |-> g.ok, def |-> def, name |-> g.name, nodes |-> g.nodes,
         default_compute |-> PyNone]

NoJob == [ok |-> FALSE, def |-> 0, name |-> "", nodes |-> <<>>, default_compute |-> PyNone]

-----------------------------------------------------------------------------
(* Files and the postprocess script (src/postprocess.py) *)

Blank == ""            \* an empty line
Malformed == "{bad"    \* a line that is not JSON
Records == {"r1", "r2"}    \* lines holding one JSON object each
Lines == Records \cup {Blank, Malformed}

Missing == [exists |-> FALSE, lines |-> <<>>]
File(lines) == [exists |-> TRUE, lines |-> lines]

\* pandas' display.max_rows and display.min_rows defaults, which print(df) uses
display_max_rows == 60
display_min_rows == 10

FLAG == "--input_data_path"
IsOption(tok) == tok \in {FLAG, "--input", "--max_records"}

\* parser.parse_known_args() with the one option --input_data_path (type=str),
\* allow_abbrev=False. Scans the command line from token i; cur is the value so far.
\* Unknown tokens are skipped, the last occurrence of the flag wins, and the flag
\* without a value is argparse's error (exit status 2).
RECURSIVE ParseFrom(_, _, _)
ParseFrom(cmd, i, cur) ==
    IF i > Len(cmd) THEN [ok |-> TRUE, val |-> cur]
    ELSE IF cmd[i] = FLAG
         THEN IF i + 1 <= Len(cmd) /\ ~IsOption(cmd[i + 1])
              THEN ParseFrom(cmd, i + 2, Some(cmd[i + 1]))
              ELSE [ok |-> FALSE, val |-> cur]
         ELSE ParseFrom(cmd, i + 1, cur)

parse_args(cmd) == ParseFrom(cmd, 1, PyNone)

\* read_json that takes the first line for a header
read_json_header(path, files) ==
    IF path.none THEN [ok |-> FALSE, rows |-> <<>>]
    ELSE IF path.val \notin DOMAIN files \/ ~files[path.val].exists
         THEN [ok |-> FALSE, rows |-> <<>>]
    ELSE LET body == SelectSeq(files[path.val].lines, LAMBDA l : l # Blank)
         IN  IF \E i \in 1..Len(body) : body[i] = Malformed
             THEN [ok |-> FALSE, rows |-> <<>>]
             ELSE [ok |-> TRUE, rows |-> IF body = <<>> THEN body ELSE Tail(body)]

\* read_json that gives an empty table when there is nothing to read
read_json_lenient(path, files) ==
    IF path.none THEN [ok |-> TRUE, rows |-> <<>>]
    ELSE IF path.val \notin DOMAIN files \/ ~files[path.val].exists
         THEN [ok |-> TRUE, rows |-> <<>>]
    ELSE LET body == SelectSeq(files[path.val].lines, LAMBDA l : l # Blank)
         IN  IF \E i \in 1..Len(body) : body[i] = Malformed
             THEN [ok |-> FALSE, rows |-> <<>>]
             ELSE [ok |-> TRUE, rows |-> body]

\* pd.read_json(path, lines=True): raises for None, for a path that names no file and
\* for a line that is not JSON; otherwise one row per non-empty line, in file order.
read_json(path, files) ==
    IF path.none THEN [ok |-> FALSE, rows |-> <<>>]
    ELSE IF path.val \notin DOMAIN files \/ ~files[path.val].exists
         THEN [ok |-> FALSE, rows |-> <<>>]
    ELSE LET body == SelectSeq(files[path.val].lines, LAMBDA l : l # Blank)
         IN  IF \E i \in 1..Len(body) : body[i] = Malformed
             THEN [ok |-> FALSE, rows |-> <<>>]
             ELSE [ok |-> TRUE, rows |-> body]

\* What print(input_data_df) writes: the rows, or, for a table longer than
\* display.max_rows, the first and last display.min_rows / 2 rows followed by the
\* "[n rows x m columns]" line (dims; -1 when the line is not printed).
Repr(df) ==
    IF Len(df) > display_max_rows
    THEN [rows |-> SubSeq(df, 1, display_min_rows \div 2)
                   \o SubSeq(df, Len(df) - (display_min_rows \div 2) + 1, Len(df)),
          dims |-> Len(df)]
    ELSE [rows |-> df, dims |-> -1]

\* parse_args(), lines 7-20 and 27-29
ParseArgs ==
    /\ ppc = "parse_args"
    /\ LET a == parse_args(argv)
       IN  IF a.ok
           THEN /\ input_data_path' = a.val
                /\ ppc' = "read_json"
           ELSE /\ input_data_path' = input_data_path
                /\ ppc' = "raised"
    /\ UNCHANGED <<argv, input_data_df, stdout, fs0, fs, stage>>
    /\ UNCHANGED <<libVars, mainVars>>

\* input_data_df = pd.read_json(input_data_path, lines=True), line 30
ReadJson ==
    /\ ppc = "read_json"
    /\ LET r == read_json(input_data_path, fs)
       IN  IF r.ok
           THEN /\ input_data_df' = r.rows
                /\ ppc' = "print"
           ELSE /\ input_data_df' = input_data_df
                /\ ppc' = "raised"
    /\ UNCHANGED <<argv, input_data_path, stdout, fs0, fs, stage>>
    /\ UNCHANGED <<libVars, mainVars>>

\* print(input_data_df) followed by a write of the table to postprocess.jsonl
PrintTableAndSave ==
    /\ ppc = "print"
    /\ stdout' = Append(stdout, Repr(input_data_df))
    /\ ppc' = "exit0"
    /\ fs' = [p \in DOMAIN fs |->
                IF p = AML_DATASTORE_PATH_PREFIX \o AML_DATASTORE_POSTPROCESS_FILE_NAME
                THEN File(input_data_df) ELSE fs[p]]
    /\ UNCHANGED <<argv, input_data_path, input_data_df, fs0, stage>>
    /\ UNCHANGED <<libVars, mainVars>>

\* print(input_data_df); return, lines 32-33: the script ends with status 0
PrintTable ==
    /\ ppc = "print"
    /\ stdout' = Append(stdout, Repr(input_data_df))
    /\ ppc' = "exit0"
    /\ UNCHANGED <<argv, input_data_path, input_data_df, fs0, fs, stage>>
    /\ UNCHANGED <<libVars, mainVars>>

ScriptStep == ParseArgs \/ ReadJson \/ PrintTable

-----------------------------------------------------------------------------
(* run_pipeline.py used as a module: build_pipeline and the definitions it returns *)

PipelineNames == {AML_PIPELINE_NAME}

\* One call of build_pipeline(pipeline_name), lines 71-98. A load that raises ends the
\* call before any append; the caller goes on.
BuildPipelineCall ==
    /\ pc = "imported"
    /\ Len(calls) < MaxCalls
    /\ \E n \in PipelineNames, r1 \in LoadResults, r2 \in LoadResults, r3 \in LoadResults :
         /\ pipeline_components' =
                build_registry(pipeline_components, Len(calls) + 1, r1, r2, r3)
         /\ calls' = Append(calls, CallRecord(Len(calls) + 1, n, r1, r2, r3))
    /\ UNCHANGED <<pipeline_job, mainVars, scriptVars, fs, stage>>

\* pipeline_definition(name=...) on the definition a successful call returned
InvokeDefinition ==
    /\ pc = "imported"
    /\ \E def \in 1..Len(calls) :
         /\ calls[def].ok
         /\ pipeline_job' = InvokeResult(def)
    /\ UNCHANGED <<pipeline_components, calls, mainVars, scriptVars, fs, stage>>

-----------------------------------------------------------------------------
(* run_pipeline.py run as a script: the __main__ block, lines 123-143 *)

ComputeTargets == {PyNone, Some("cpu-cluster")}

\* An unhandled exception in `step`: the traceback, and the process ends
Raise(step) ==
    /\ pc' = "error"
    /\ failed_step' = step
    /\ trail' = Append(trail, step)

Proceed(step, next) ==
    /\ pc' = next
    /\ failed_step' = failed_step
    /\ trail' = Append(trail, step)

\* load_dotenv(); compute_target = os.getenv(...); pipeline_name = AML_PIPELINE_NAME
MainEnv ==
    /\ pc = "env"
    /\ \E c \in ComputeTargets : compute_target' = c
    /\ Proceed("env", "build_pipeline")
    /\ UNCHANGED <<libVars, submitted, job, stream_target, scriptVars, fs, stage>>

\* pipeline_definition = build_pipeline(pipeline_name=pipeline_name), lines 129-131
MainBuildPipeline ==
    /\ pc = "build_pipeline"
    /\ \E r1 \in LoadResults, r2 \in LoadResults, r3 \in LoadResults :
         /\ pipeline_components' =
                build_registry(pipeline_components, Len(calls) + 1, r1, r2, r3)
         /\ calls' = Append(calls, CallRecord(Len(calls) + 1, AML_PIPELINE_NAME, r1, r2, r3))
         /\ IF build_ok(r1, r2, r3)
            THEN Proceed("build_pipeline", "get_ml_client")
            ELSE Raise("build_pipeline")
    /\ UNCHANGED <<pipeline_job, compute_target, submitted, job, stream_target,
                   scriptVars, fs, stage>>

\* get_ml_client() inside a try/except that logs the failure and goes on
GetMlClientSwallowed ==
    /\ pc = "get_ml_client"
    /\ \/ Proceed("get_ml_client", "pipeline_definition")
       \/ /\ pc' = "pipeline_definition"
          /\ failed_step' = "get_ml_client"
          /\ trail' = Append(trail, "get_ml_client")
    /\ UNCHANGED <<libVars, compute_target, submitted, job, stream_target,
                   scriptVars, fs, stage>>

\* ml_client = get_ml_client(), line 133 (lines 101-121)
GetMlClient ==
    /\ pc = "get_ml_client"
    /\ \/ Proceed("get_ml_client", "pipeline_definition")
       \/ Raise("get_ml_client")
    /\ UNCHANGED <<libVars, compute_target, submitted, job, stream_target,
                   scriptVars, fs, stage>>

\* pipeline_job = pipeline_definition(name=pipeline_name), line 134
MainInvoke ==
    /\ pc = "pipeline_definition"
    /\ \/ /\ InvokeResult(Len(calls)).ok
          /\ pipeline_job' = InvokeResult(Len(calls))
          /\ Proceed("pipeline_definition", "default_compute")
       \/ /\ pipeline_job' = pipeline_job
          /\ Raise("pipeline_definition")
    /\ UNCHANGED <<pipeline_components, calls, compute_target, submitted, job,
                   stream_target, scriptVars, fs, stage>>

\* the assignment of the compute target left out
SetDefaultComputeSkipped ==
    /\ pc = "default_compute"
    /\ pipeline_job' = pipeline_job
    /\ Proceed("default_compute", "create_or_update")
    /\ UNCHANGED <<pipeline_components, calls, compute_target, submitted, job,
                   stream_target, scriptVars, fs, stage>>

\* pipeline_job.settings.default_compute = compute_target, line 135
SetDefaultCompute ==
    /\ pc = "default_compute"
    /\ pipeline_job' = [pipeline_job EXCEPT !.default_compute = compute_target]
    /\ Proceed("default_compute", "create_or_update")
    /\ UNCHANGED <<pipeline_components, calls, compute_target, submitted, job,
                   stream_target, scriptVars, fs, stage>>

\* job = ml_client.jobs.create_or_update(pipeline_job, experiment_name=...), lines 138-141
Submit ==
    /\ pc = "create_or_update"
    /\ \/ /\ submitted' = Append(submitted, [pipeline_job |-> pipeline_job,
                                             experiment_name |-> AML_EXPERIMENT_NAME])
          /\ job' = Len(submitted) + 1
          /\ Proceed("create_or_update", "stream")
       \/ /\ UNCHANGED <<submitted, job>>
          /\ Raise("create_or_update")
    /\ UNCHANGED <<libVars, compute_target, stream_target, scriptVars, fs, stage>>

\* ml_client.jobs.stream(name=job.name), line 143: the call is made
StreamBegin ==
    /\ pc = "stream"
    /\ stream_target' = job
    /\ Proceed("stream", "streaming")
    /\ UNCHANGED <<libVars, compute_target, submitted, job, scriptVars, fs, stage>>

StageFailed == \E i \in 1..3 : stage[i] = "Failed"
StageRunning == \E i \in 1..3 : stage[i] = "Running"
JobCompleted == \A i \in 1..3 : stage[i] = "Completed"
JobTerminal == JobCompleted \/ (StageFailed /\ ~StageRunning)

\* jobs.stream returns when the job has completed, and raises when it has failed
StreamEnd ==
    /\ pc = "streaming"
    /\ JobTerminal
    /\ pc' = IF JobCompleted THEN "done" ELSE "error"
    /\ failed_step' = IF JobCompleted THEN failed_step ELSE "stream"
    /\ UNCHANGED <<libVars, compute_target, trail, submitted, job, stream_target,
                   scriptVars, fs, stage>>

\* jobs.stream raises while the job is still running (the connection is lost)
StreamRaise ==
    /\ pc = "streaming"
    /\ ~JobTerminal
    /\ pc' = "error"
    /\ failed_step' = "stream"
    /\ UNCHANGED <<libVars, compute_target, trail, submitted, job, stream_target,
                   scriptVars, fs, stage>>

-----------------------------------------------------------------------------
(* The job service executing the submitted graph *)

DataPath == AML_DATASTORE_PATH_PREFIX \o AML_DATASTORE_PREPROCESS_FILE_NAME
PreprocessOutputPath == AML_DATASTORE_PATH_PREFIX \o "preprocess_output.jsonl"
PromptflowPath == AML_DATASTORE_PATH_PREFIX \o AML_DATASTORE_PROMPTFLOW_FILE_NAME
PostprocessPath == AML_DATASTORE_PATH_PREFIX \o AML_DATASTORE_POSTPROCESS_FILE_NAME
DatastorePaths == {DataPath, PreprocessOutputPath, PromptflowPath, PostprocessPath}

\* What a preprocess or evaluation stage may write to an output
StageContents == { <<>>, <<"r1">>, <<"r1", "r2">>, <<"r1", Malformed>> }

Graph == submitted[1].pipeline_job

\* The location an input binding stands for
BoundPath(g, b) ==
    IF b.kind = "output"
    THEN LET outs == {o \in g.nodes[b.node].outputs : o.name = b.output}
         IN  IF outs = {} THEN "" ELSE (CHOOSE o \in outs : TRUE).path
    ELSE b.path

IsScriptStage(i) == Graph.nodes[i].component.path = POSTPROCESS_YAML

\* A stage starts once every stage producing one of its inputs has completed.
\* The postprocess stage runs postprocess.py with its input's location as argument.
StageStart(i) ==
    /\ submitted # <<>>
    /\ stage[i] = "NotStarted"
    /\ ~StageFailed
    /\ \A b \in Graph.nodes[i].inputs : b.kind = "output" => stage[b.node] = "Completed"
    /\ stage' = [stage EXCEPT ![i] = "Running"]
    /\ IF IsScriptStage(i)
       THEN /\ argv' = LET ins == {b \in Graph.nodes[i].inputs : b.name = "input_data_path"}
                       IN  IF ins = {} THEN <<>>
                           ELSE <<FLAG, BoundPath(Graph, CHOOSE b \in ins : TRUE)>>
            /\ ppc' = "parse_args"
            /\ fs0' = fs
            /\ UNCHANGED <<input_data_path, input_data_df, stdout>>
       ELSE UNCHANGED scriptVars
    /\ UNCHANGED <<libVars, mainVars, fs>>

\* A preprocess or evaluation stage ends: it has written its declared outputs, or failed
StageFinish(i) ==
    /\ submitted # <<>>
    /\ stage[i] = "Running"
    /\ ~IsScriptStage(i)
    /\ \/ \E c \in StageContents :
            /\ fs' = [p \in DOMAIN fs |->
                        IF \E o \in Graph.nodes[i].outputs : o.path = p
                        THEN File(c) ELSE fs[p]]
            /\ stage' = [stage EXCEPT ![i] = "Completed"]
       \/ /\ stage' = [stage EXCEPT ![i] = "Failed"]
          /\ fs' = fs
    /\ UNCHANGED <<libVars, mainVars, scriptVars>>

\* The postprocess stage ends with the script: completed on exit status 0
ScriptStageFinish(i) ==
    /\ submitted # <<>>
    /\ stage[i] = "Running"
    /\ IsScriptStage(i)
    /\ ppc \in {"exit0", "raised"}
    /\ stage' = [stage EXCEPT ![i] = IF ppc = "exit0" THEN "Completed" ELSE "Failed"]
    /\ UNCHANGED <<libVars, mainVars, scriptVars, fs>>

-----------------------------------------------------------------------------
(* Specifications *)

InitCommon ==
    /\ pipeline_components = <<>>
    /\ calls = <<>>
    /\ pipeline_job = NoJob
    /\ compute_target = PyNone
    /\ failed_step = ""
    /\ trail = <<>>
    /\ submitted = <<>>
    /\ job = 0
    /\ stream_target = 0
    /\ stage = [i \in 1..3 |-> "NotStarted"]
    /\ input_data_path = PyNone
    /\ input_data_df = <<>>
    /\ stdout = <<>>
    /\ fs0 = fs

\* python run_pipeline.py: the datastore holds data.jsonl or not, and what an
\* earlier job may have left at postprocess.jsonl
Init ==
    /\ pc = "env"
    /\ \E c \in StageContents \cup {<<>>}, d \in {Missing, File(<<"r1">>)} :
         fs = [p \in DatastorePaths |->
                 IF p = DataPath THEN File(c)
                 ELSE IF p = PostprocessPath THEN d ELSE Missing]
    /\ argv = <<>>
    /\ ppc = "idle"
    /\ InitCommon

Next ==
    \/ MainEnv \/ MainBuildPipeline \/ GetMlClient \/ MainInvoke \/ SetDefaultCompute
    \/ Submit \/ StreamBegin \/ StreamEnd \/ StreamRaise
    \/ \E i \in 1..3 : StageStart(i) \/ StageFinish(i) \/ ScriptStageFinish(i)
    \/ ScriptStep

Spec == Init /\ [][Next]_vars

\* import run_pipeline: the module's functions are called, the __main__ block is not run
InitLib ==
    /\ pc = "imported"
    /\ fs = [p \in DatastorePaths |-> Missing]
    /\ argv = <<>>
    /\ ppc = "idle"
    /\ InitCommon

NextLib == BuildPipelineCall \/ InvokeDefinition

SpecLib == InitLib /\ [][NextLib]_vars

\* python postprocess.py <command line>, with in.jsonl present or not
LocalPaths == {"in.jsonl", "gone.jsonl"}
Tokens == {FLAG, "--input"} \cup LocalPaths
MaxArgs == 3

SeqsUpTo(S, n) == UNION {[1..k -> S] : k \in 0..n}

LongFile == [i \in 1..(display_max_rows + 1) |-> "r1"]
Contents == SeqsUpTo(Lines, MaxLines) \cup {LongFile}

InitPost ==
    /\ pc = "imported"
    /\ \E f \in {Missing} \cup {File(c) : c \in Contents} :
         fs = [p \in LocalPaths |-> IF p = "in.jsonl" THEN f ELSE Missing]
    /\ argv \in SeqsUpTo(Tokens, MaxArgs)
    /\ ppc = "parse_args"
    /\ InitCommon

NextPost == ScriptStep

SpecPost == InitPost /\ [][NextPost]_vars

-----------------------------------------------------------------------------
(* Properties of the pipeline builder, checked under SpecLib *)

StageYamls == <<PREPROCESS_YAML, FLOW_DAG_YAML, POSTPROCESS_YAML>>

\* C1: after any number (>= 1) of successful build_pipeline calls, invoking the
\* returned definition yields a graph of exactly three stages, in the order
\* preprocess, evaluation, postprocess, each stage being the component that this
\* build_pipeline call has just loaded from its file.
C1_StagesAreThoseJustLoaded ==
    pipeline_job.ok =>
        /\ Len(pipeline_job.nodes) = 3
        /\ \A i \in 1..3 :
             /\ pipeline_job.nodes[i].component.path = StageYamls[i]
             /\ pipeline_job.nodes[i].component = calls[pipeline_job.def].loaded[i]

\* C2: in every graph the definition produces, the evaluation stage's "data" input is
\* bound to the preprocess stage's output_data_path output, the postprocess stage's
\* input_data_path input is bound to the evaluation stage's flow_outputs output, and
\* no input is bound to an output of a later stage or of the stage itself.
C2_Wiring ==
    pipeline_job.ok =>
        /\ pipeline_job.nodes[1].component.path = PREPROCESS_YAML
        /\ pipeline_job.nodes[2].component.path = FLOW_DAG_YAML
        /\ pipeline_job.nodes[3].component.path = POSTPROCESS_YAML
        /\ {b \in pipeline_job.nodes[2].inputs : b.name = "data"}
               = {InputFrom("data", 1, "output_data_path")}
        /\ {b \in pipeline_job.nodes[3].inputs : b.name = "input_data_path"}
               = {InputFrom("input_data_path", 2, "flow_outputs")}
        /\ \E o \in pipeline_job.nodes[1].outputs : o.name = "output_data_path"
        /\ \E o \in pipeline_job.nodes[2].outputs : o.name = "flow_outputs"
        /\ \A i \in 1..3 : \A b \in pipeline_job.nodes[i].inputs :
               b.kind = "output" => b.node \in 1..(i - 1)

C2_Witness ==
    /\ pipeline_job.ok
    /\ Len(calls) = 2

\* The datastore locations a graph names
GraphPaths(g) ==
    {b.path : b \in {x \in UNION {g.nodes[i].inputs : i \in 1..Len(g.nodes)} :
                        x.kind = "uri_file"}}
    \cup {o.path : o \in UNION {g.nodes[i].outputs : i \in 1..Len(g.nodes)}}

HasInputLocation(g, i) ==
    \E b \in g.nodes[i].inputs : b.kind \in {"uri_file", "output"} /\ BoundPath(g, b) # ""

\* C5: the graph uses exactly the datastore paths data.jsonl, pf_output.jsonl and
\* postprocess.jsonl under the workspaceblobstore prefix; every stage has a declared
\* input location and a declared output location; preprocess reads data.jsonl,
\* evaluation writes pf_output.jsonl and postprocess's output is postprocess.jsonl.
C5_FixedPaths ==
    pipeline_job.ok =>
        /\ GraphPaths(pipeline_job) = {DataPath, PromptflowPath, PostprocessPath}
        /\ \A i \in 1..3 :
             /\ HasInputLocation(pipeline_job, i)
             /\ pipeline_job.nodes[i].outputs # {}
        /\ \E b \in pipeline_job.nodes[1].inputs : b.path = DataPath
        /\ \E o \in pipeline_job.nodes[2].outputs : o.path = PromptflowPath
        /\ \E o \in pipeline_job.nodes[3].outputs : o.path = PostprocessPath

RECURSIVE LoadedUpTo(_)
LoadedUpTo(k) == IF k = 0 THEN <<>> ELSE LoadedUpTo(k - 1) \o calls[k].loaded

SuccessfulCalls == Cardinality({k \in 1..Len(calls) : calls[k].ok})

\* C10: the registry is changed only by build_pipeline, and all-or-nothing: a call in
\* which a load fails leaves it unchanged, a successful call appends its three components in the
\* order preprocess, evaluation, postprocess; so the registry is the concatenation of
\* what the successful calls loaded, 3 entries per successful call, and no step
\* removes or reorders entries.
C10_Registry ==
    /\ [](/\ Len(pipeline_components) = 3 * SuccessfulCalls
          /\ pipeline_components = LoadedUpTo(Len(calls))
          /\ \A j \in 1..Len(pipeline_components) :
               pipeline_components[j].path = StageYamls[((j - 1) % 3) + 1])
    /\ [][/\ pipeline_components' # pipeline_components => Len(calls') = Len(calls) + 1
          /\ Len(pipeline_components') >= Len(pipeline_components)
          /\ SubSeq(pipeline_components', 1, Len(pipeline_components)) = pipeline_components
          /\ (Len(calls') > Len(calls) /\ ~calls'[Len(calls')].ok)
                => pipeline_components' = pipeline_components]_vars

\* a call whose first load succeeded and whose second load raised, and a successful call
C10_Witness ==
    /\ \E k \in 1..Len(calls) : calls[k].found[1] # 0 /\ calls[k].found[2] = 0
    /\ \E k \in 1..Len(calls) : calls[k].ok
    /\ Len(pipeline_components) = 3

-----------------------------------------------------------------------------
(* Properties of one run of run_pipeline.py and of its job, checked under Spec *)

\* C3: with a service that starts a stage only once the stages producing its inputs
\* have completed, evaluation never starts before preprocess has completed and
\* postprocess never starts before evaluation has completed.
C3_DependencyOrder ==
    /\ stage[2] # "NotStarted" => stage[1] = "Completed"
    /\ stage[3] # "NotStarted" => stage[2] = "Completed"

C3_Witness ==
    /\ stage[3] = "Running"
    /\ stage[2] = "Completed"

SubmittedOnceWellFormed ==
    /\ Len(submitted) <= 1
    /\ stream_target # 0 => (job # 0 /\ stream_target = job /\ Len(submitted) = 1)
    /\ job # 0 => job = Len(submitted)
    /\ \A k \in 1..Len(submitted) :
         submitted[k].pipeline_job.default_compute = compute_target

\* C4 as stated: the job is submitted at most once, streaming starts only after the
\* submission has returned and targets the job it returned, the compute target is
\* assigned before the submission, and the process ends only after streaming has ended
\* at a terminal job status.
C4_AsStated ==
    /\ SubmittedOnceWellFormed
    /\ pc \in {"done", "error"} => (stream_target # 0 /\ JobTerminal)

\* C4 amended: as above, but it is the normal end of the process (no unhandled
\* exception) that comes only after streaming has ended at a terminal job status.
C4_SubmitOnceThenStream ==
    /\ SubmittedOnceWellFormed
    /\ pc = "done" => (stream_target # 0 /\ JobTerminal)

C4_Witness ==
    /\ pc = "done"
    /\ ~compute_target.none

StepOrder == <<"env", "build_pipeline", "get_ml_client", "pipeline_definition",
               "default_compute", "create_or_update", "stream">>

\* C9: no failure is caught in run_pipeline.py: when a step raises, the run ends at
\* once in an error state and no later step executes; each step runs at most once,
\* in program order; when a step before jobs.create_or_update fails, no job is ever
\* submitted.
C9_NothingCaught ==
    /\ [](/\ (failed_step # "") <=> (pc = "error")
          /\ Len(trail) <= Len(StepOrder)
          /\ trail = SubSeq(StepOrder, 1, Len(trail))
          /\ pc = "error" => (trail # <<>> /\ trail[Len(trail)] = failed_step)
          /\ (pc = "error" /\ failed_step \in {"build_pipeline", "get_ml_client",
                                                "pipeline_definition"})
                => (submitted = <<>> /\ job = 0))
    /\ [][pc = "error" => UNCHANGED <<libVars, mainVars>>]_vars

C9_Witness ==
    /\ pc = "error"
    /\ failed_step = "get_ml_client"
    /\ submitted = <<>>

ScriptMoved == ppc # "idle" /\ ppc' # ppc

\* C8: the postprocess stage produces nothing beyond the print: no step of the script,
\* in a successful or a failing run, writes or changes a file, the script prints at
\* most once, and no stage of the pipeline ever writes postprocess.jsonl.
C8_NothingWritten ==
    [][/\ ScriptMoved => (fs' = fs /\ fs' = fs0)
       /\ fs'[PostprocessPath] = fs[PostprocessPath]
       /\ Len(stdout') <= 1]_vars

\* the postprocess stage has run the script to its end and the job has completed
C8_Witness ==
    /\ ppc = "exit0"
    /\ JobCompleted
    /\ fs[PromptflowPath].exists

-----------------------------------------------------------------------------
(* Properties of the postprocess script, checked under SpecPost *)

Parsed == parse_args(argv)

FileAtStart(p) == IF p \in DOMAIN fs0 THEN fs0[p] ELSE Missing

\* the command line names an existing file in which every non-empty line is a record
ValidInput ==
    /\ Parsed.ok
    /\ ~Parsed.val.none
    /\ FileAtStart(Parsed.val.val).exists
    /\ \A i \in 1..Len(FileAtStart(Parsed.val.val).lines) :
         FileAtStart(Parsed.val.val).lines[i] # Malformed

RecordsOf(lines) == SelectSeq(lines, LAMBDA l : l \in Records)

\* the row count a printed table shows: the count in its dimensions line when the
\* table was cut, the number of its rows otherwise
RowCount(t) == IF t.dims # -1 THEN t.dims ELSE Len(t.rows)

\* C6: for a valid line-delimited JSON file with n records the script does not raise,
\* and when it has exited it has printed one table whose row count is n; a table that
\* is printed in full has exactly the file's records as rows, in order.
C6_RowCountMatches ==
    ValidInput =>
        /\ ppc # "raised"
        /\ ppc # "exit0" => stdout = <<>>
        /\ ppc = "exit0" =>
             /\ Len(stdout) = 1
             /\ RowCount(stdout[1]) = Len(RecordsOf(FileAtStart(Parsed.val.val).lines))
             /\ stdout[1].dims = -1 =>
                    stdout[1].rows = RecordsOf(FileAtStart(Parsed.val.val).lines)

\* a file with an empty line and two records, printed
C6_Witness ==
    /\ ValidInput
    /\ ppc = "exit0"
    /\ Len(FileAtStart(Parsed.val.val).lines) = 3
    /\ RowCount(stdout[1]) = 2

\* the flag is absent (the value is None) or its value names no existing file
MissingInput ==
    /\ Parsed.ok
    /\ Parsed.val.none \/ ~FileAtStart(Parsed.val.val).exists

\* C7: given a missing file path the script raises: it never prints a table and never
\* exits successfully, and once past read_json it is in the error state.
C7_MissingPathRaises ==
    MissingInput =>
        /\ stdout = <<>>
        /\ ppc \in {"parse_args", "read_json", "raised"}

C7_Witness ==
    /\ MissingInput
    /\ ~Parsed.val.none
    /\ ppc = "raised"

====
